---------------------------- MODULE Spec2Model ----------------------------
(***************************************************************************)
(* The early-boot sequencer of threads/init.c: main, paging_init,          *)
(* read_command_line, parse_options, run_actions and power_off.            *)
(*                                                                         *)
(* Characters are their ASCII codes, a C string is the sequence of codes   *)
(* before its terminating NUL, and a char pointer into the loader's        *)
(* argument area is its byte offset from LOADER_ARGS.  Physical and        *)
(* virtual addresses are byte addresses.                                   *)
(***************************************************************************)
EXTENDS Integers, Sequences, FiniteSets, TLC

(***************************************************************************)
(* Bounds of the model.                                                    *)
(***************************************************************************)
MaxOpts  == 2   \* leading option tokens on a generated command line
MaxActs  == 3   \* action/argument tokens on a generated command line
MaxPages == 3   \* physical pages reported by palloc_init
MaxPool  == 4   \* free kernel pages available to paging_init
MaxExtra == 2   \* how far the declared count may exceed the tokens written

(***************************************************************************)
(* Constants of the program.                                               *)
(***************************************************************************)
LOADER_ARGS_LEN == 128
PGSIZE == 4096
PTE_P == 1
PTE_W == 2
KERN_BASE == 1073741824  \* offset of ptov, scaled to fit 32-bit arithmetic
NULL == -1               \* the null pointer, distinct from every offset
NUL == 0                 \* '\0'
SIZE_MAX == -1           \* (size_t) -1

ArgvSlots == LOADER_ARGS_LEN \div 2 + 1

(***************************************************************************)
(* String literals of the source, as ASCII codes.                          *)
(***************************************************************************)
S_h       == <<45, 104>>                             \* "-h"
S_q       == <<45, 113>>                             \* "-q"
S_f       == <<45, 102>>                             \* "-f"
S_rs      == <<45, 114, 115>>                        \* "-rs"
S_mlfqs   == <<45, 109, 108, 102, 113, 115>>         \* "-mlfqs"
S_ul      == <<45, 117, 108>>                        \* "-ul"
S_threads_tests ==
    <<45, 116, 104, 114, 101, 97, 100, 115, 45, 116, 101, 115, 116, 115>>
                                                     \* "-threads-tests"
S_run     == <<114, 117, 110>>                       \* "run"
S_ls      == <<108, 115>>                            \* "ls"
S_cat     == <<99, 97, 116>>                         \* "cat"
S_rm      == <<114, 109>>                            \* "rm"
S_put     == <<112, 117, 116>>                       \* "put"
S_get     == <<103, 101, 116>>                       \* "get"

(***************************************************************************)
(* Tokens a loader may write that the source does not name.                *)
(***************************************************************************)
T_bogus   == <<45, 98, 111, 103, 117, 115>>          \* "-bogus"
T_rs77    == <<45, 114, 115, 61, 55, 55>>            \* "-rs=77"
T_rsab    == <<45, 114, 115, 61, 97, 98>>            \* "-rs=ab"
T_rs_eq   == <<45, 114, 115, 61>>                    \* "-rs="
T_rs7x    == <<45, 114, 115, 61, 55, 120>>           \* "-rs=7x"
T_ul5     == <<45, 117, 108, 61, 53>>                \* "-ul=5"
T_ulab    == <<45, 117, 108, 61, 97, 98>>            \* "-ul=ab"
T_prog    == <<112, 114, 111, 103>>                  \* "prog"
T_t       == <<116>>                                 \* "t"
T_a_b     == <<97, 32, 98>>                          \* "a b"
FILL      == 120                                     \* 'x'

(***************************************************************************)
(* C library functions used by the source.                                 *)
(***************************************************************************)
\* The least element of a non-empty set of integers.
Least(S) == CHOOSE k \in S : \A j \in S : k <= j

\* Index (1-based) of the first position >= from of s holding c, or 0.
IndexFrom(s, c, from) ==
    LET hits == {k \in from..Len(s) : s[k] = c}
    IN  IF hits = {} THEN 0 ELSE Least(hits)

\* The byte at offset p of the argument area m.
ByteAt(m, p) == m[p + 1]

\* strnlen(p, n) over the bytes of m: bytes before the first NUL, at most n.
strnlen(m, p, n) ==
    LET nuls == {k \in 0..(n - 1) : ByteAt(m, p + k) = NUL}
    IN  IF nuls = {} THEN n ELSE Least(nuls)

\* Does a NUL terminate the string at p before the end of the area?
Terminated(m, p) ==
    p < LOADER_ARGS_LEN /\ strnlen(m, p, LOADER_ARGS_LEN - p) < LOADER_ARGS_LEN - p

\* The characters of the string at p that lie inside the area.
StrAt(m, p) ==
    IF p >= LOADER_ARGS_LEN THEN << >>
    ELSE SubSeq(m, p + 1, p + strnlen(m, p, LOADER_ARGS_LEN - p))

\* atoi: optional white space, optional sign, then decimal digits.
IsSpace(c) == c \in {32, 9, 10, 11, 12, 13}
IsDigit(c) == c >= 48 /\ c <= 57

RECURSIVE SkipSpace(_)
SkipSpace(s) ==
    IF s # << >> /\ IsSpace(Head(s)) THEN SkipSpace(Tail(s)) ELSE s

RECURSIVE Digits(_, _)
Digits(s, acc) ==
    IF s # << >> /\ IsDigit(Head(s))
    THEN Digits(Tail(s), acc * 10 + (Head(s) - 48))
    ELSE acc

\* An atoi whose loop lacks the isdigit test.
RECURSIVE Digits_Unchecked(_, _)
Digits_Unchecked(s, acc) ==
    IF s # << >>
    THEN Digits_Unchecked(Tail(s), acc * 10 + (Head(s) - 48))
    ELSE acc

atoi_Unchecked(s) == Digits_Unchecked(SkipSpace(s), 0)

atoi(s) ==
    LET t == SkipSpace(s)
    IN  IF t # << >> /\ Head(t) = 45 THEN 0 - Digits(Tail(t), 0)
        ELSE IF t # << >> /\ Head(t) = 43 THEN Digits(Tail(t), 0)
        ELSE Digits(t, 0)


(***************************************************************************)
(* The build: which of USERPROG, FILESYS and VM are defined.               *)
(***************************************************************************)
Builds == [USERPROG : BOOLEAN, FILESYS : BOOLEAN, VM : BOOLEAN]

BuildNone == [USERPROG |-> FALSE, FILESYS |-> FALSE, VM |-> FALSE]
BuildAll  == [USERPROG |-> TRUE, FILESYS |-> TRUE, VM |-> TRUE]

\* The builds the generated command lines are booted on.
CoreBuilds == {b \in Builds : ~b.VM} \cup {BuildAll}

(***************************************************************************)
(* The loader: it writes the token count at LOADER_ARG_CNT and the tokens, *)
(* each followed by a NUL, from LOADER_ARGS on.  The rest of the area      *)
(* holds whatever the loader left there (fill).                            *)
(***************************************************************************)
RECURSIVE Flatten(_)
Flatten(toks) ==
    IF toks = << >> THEN << >>
    ELSE IF Len(toks) = 1 THEN toks[1] \o <<NUL>>
    ELSE LET half == Len(toks) \div 2
         IN  Flatten(SubSeq(toks, 1, half))
                 \o Flatten(SubSeq(toks, half + 1, Len(toks)))

Pack(toks, fill) ==
    LET body == Flatten(toks)
    IN  body \o [i \in 1..(LOADER_ARGS_LEN - Len(body)) |-> fill]

\* All sequences over S of length at most n.
RECURSIVE SeqsUpTo(_, _)
SeqsUpTo(S, n) ==
    IF n = 0 THEN {<< >>}
    ELSE LET shorter == SeqsUpTo(S, n - 1)
         IN  shorter \cup {Append(q, x) : q \in shorter, x \in S}

OptTokens ==
    {S_h, S_q, S_f, S_rs, T_rs77, S_mlfqs, T_ul5, S_threads_tests, T_bogus}

ActTokens == {S_run, S_ls, S_cat, T_prog}

\* Command lines that vary the leading options.
OptLines ==
    {o \o <<S_run, T_t>> : o \in SeqsUpTo(OptTokens, MaxOpts)}

\* Command lines that vary the actions.
ActLines ==
    {o \o a : o \in {<< >>, <<S_q>>}, a \in SeqsUpTo(ActTokens, MaxActs)}

\* Command lines booted on every build.
FsLines ==
    {<<S_rm, T_prog>>, <<S_put, T_prog>>, <<S_get, T_prog>>,
     <<S_rm>>, <<S_get>>, <<S_run, T_a_b>>, <<T_rs77, S_mlfqs, S_run, T_t>>,
     <<S_run, S_q>>, <<S_q, S_run, S_h>>, <<S_q, S_f>>, <<S_h>>, <<T_bogus>>,
     <<S_q, S_run, T_prog, S_ls>>, <<S_threads_tests, T_ul5>>,
     <<T_rsab, S_q, S_run, T_t>>, <<T_ul5, T_rsab>>, <<S_ul, S_q>>,
     <<S_q, S_ul>>, <<T_rs7x, T_ulab, S_run, T_t>>, <<T_ulab, T_rsab, S_q>>,
     <<S_q, T_rs_eq>>}

\* Token lists whose packing is varied (declared count, trailing bytes).
BlobLines ==
    {<< >>, <<T_t>>, <<S_run, T_t>>, <<S_q, S_run, T_prog>>,
     <<S_q>>, <<S_ls>>}

\* A token that fills the whole area when written behind toks.
Filler(n) == [i \in 1..n |-> FILL]

\* Where the linker put the kernel text: [start, _end_kernel_text).
DefaultLink == [start |-> KERN_BASE + PGSIZE, end_kernel_text |-> KERN_BASE + 2 * PGSIZE]

Links ==
    {[start |-> KERN_BASE + s, end_kernel_text |-> KERN_BASE + s + l] :
        s \in {0, PGSIZE, PGSIZE + 16}, l \in {0, 1, PGSIZE, 2 * PGSIZE}}

(***************************************************************************)
(* The state.                                                              *)
(***************************************************************************)
VARIABLES
    build,          \* the build configuration (fixed for a boot)
    link,           \* the linker symbols start and _end_kernel_text
    ram,            \* [end: bytes of RAM palloc_init finds, pool: free kernel pages]
    loader_tokens,  \* the tokens the loader wrote
    arg_cnt,        \* *(uint32_t *) ptov (LOADER_ARG_CNT)
    mem,            \* the LOADER_ARGS_LEN bytes at ptov (LOADER_ARGS)
    pc,             \* main's position: index into MainBody(build)
    at,             \* position inside the function main is in
    argv_arr,       \* read_command_line's static argv[]
    rcl,            \* read_command_line's locals [i, p]
    argv,           \* main's argv: index into argv_arr
    cfg,            \* the option globals
    calls,          \* the calls made into other modules, in order
    returned,       \* the functions main called that have returned, in order
    halt,           \* how the machine stopped, if it did
    mem_end,        \* main's mem_end
    pt,             \* base_pml4: the page table paging_init builds
    pa,             \* paging_init's loop variable
    intr            \* are interrupts enabled?

vars == <<build, link, ram, loader_tokens, arg_cnt, mem, pc, at, argv_arr, rcl,
          argv, cfg, calls, returned, halt, mem_end, pt, pa,
          intr>>

inputs == <<build, link, ram, loader_tokens, arg_cnt>>

Running == [kind |-> "running", name |-> << >>, count |-> 0]

Panic(kind, name, count) == [kind |-> kind, name |-> name, count |-> count]

Call(fn, args, val) == [fn |-> fn, args |-> args, val |-> val]

\* The boot inputs: build, linker layout, RAM, and what the loader wrote.
BootInputs ==
    LET Wellformed(lines, builds) ==
            {[build |-> b, link |-> DefaultLink,
              ram |-> [end |-> MaxPages * PGSIZE, pool |-> MaxPool],
              toks |-> t, cnt |-> Len(t), fill |-> NUL] :
                b \in builds, t \in lines}
        \* well formed, with empty tokens at the end
        Empties ==
            UNION {
              {[build |-> b, link |-> DefaultLink,
                ram |-> [end |-> MaxPages * PGSIZE, pool |-> MaxPool],
                toks |-> t \o [i \in 1..e |-> << >>],
                cnt |-> Len(t) + e, fill |-> NUL] :
                  b \in {BuildNone, BuildAll},
                  e \in (1..MaxExtra) \cup
                        {ArgvSlots - 2 - Len(t), ArgvSlots - 1 - Len(t),
                         ArgvSlots - Len(t),
                         LOADER_ARGS_LEN - Len(Flatten(t))}} : t \in BlobLines}
        \* the declared count exceeds the tokens written
        Blobs ==
            UNION {
              {[build |-> b, link |-> DefaultLink,
                ram |-> [end |-> MaxPages * PGSIZE, pool |-> MaxPool],
                toks |-> t, cnt |-> Len(t) + e, fill |-> FILL] :
                  b \in {BuildNone, BuildAll},
                  e \in 1..MaxExtra} : t \in BlobLines}
        \* more tokens declared than the area has bytes
        Counts ==
            {[build |-> b, link |-> DefaultLink,
              ram |-> [end |-> MaxPages * PGSIZE, pool |-> MaxPool],
              toks |-> [i \in 1..LOADER_ARGS_LEN |-> << >>],
              cnt |-> LOADER_ARGS_LEN + e, fill |-> NUL] :
                b \in {BuildNone, BuildAll}, e \in 1..MaxExtra}
        \* the last token written runs to the end of the area, or stops
        \* one byte short of it
        Full ==
            {[build |-> b, link |-> DefaultLink,
              ram |-> [end |-> MaxPages * PGSIZE, pool |-> MaxPool],
              toks |-> t \o <<Filler(LOADER_ARGS_LEN - Len(Flatten(t)) - k)>>,
              cnt |-> Len(t) + c, fill |-> NUL] :
                b \in {BuildNone, BuildAll}, t \in {<< >>, <<S_run>>},
                k \in {0, 1}, c \in 1..(1 + MaxExtra)}
        Memory ==
            {[build |-> b, link |-> l,
              ram |-> [end |-> n * PGSIZE, pool |-> k],
              toks |-> t, cnt |-> Len(t), fill |-> NUL] :
                b \in {BuildAll}, l \in Links,
                n \in 0..MaxPages, k \in 0..MaxPool,
                t \in {<< >>, <<S_q, S_run, T_t>>}}
    IN  Wellformed(OptLines \cup ActLines, CoreBuilds)
            \cup Wellformed(FsLines, Builds)
            \cup Empties \cup Blobs \cup Counts \cup Full \cup Memory

\* The state when main calls read_command_line: bss_init has zeroed the
\* static argv[] and the option flags; user_page_limit is initialised data.
Init ==
    \E in \in BootInputs :
        /\ build = in.build
        /\ link = in.link
        /\ ram = in.ram
        /\ loader_tokens = in.toks
        /\ arg_cnt = in.cnt
        /\ mem = SubSeq(Pack(in.toks, in.fill), 1, LOADER_ARGS_LEN)
        /\ pc = 1
        /\ at = "entry"
        /\ argv_arr = [i \in 0..(ArgvSlots - 1) |-> NULL]
        /\ rcl = [i |-> 0, p |-> 0]
        /\ argv = 0
        /\ cfg = [power_off_when_done |-> FALSE, format_filesys |-> FALSE,
                  thread_mlfqs |-> FALSE, user_page_limit |-> SIZE_MAX,
                  thread_tests |-> FALSE, random_seed |-> NULL]
        /\ calls = << >>
        /\ returned = << >>
        /\ halt = Running
        /\ mem_end = 0
        /\ pt = [free |-> 0, allocated |-> FALSE, tables |-> {},
                 entries |-> [va \in {} |-> 0], cr3 |-> 0]
        /\ pa = 0
        /\ intr = FALSE


(***************************************************************************)
(* main: the calls of its body, in source order, for a build.              *)
(***************************************************************************)
\* main with paging_init called before palloc_init has reported mem_end.
MainBody_PagingFirst(b) ==
    <<"read_command_line", "parse_options",
      "thread_init", "console_init",
      "paging_init", "palloc_init", "malloc_init">>
    \o (IF b.USERPROG THEN <<"tss_init", "gdt_init">> ELSE << >>)
    \o <<"intr_init", "timer_init", "kbd_init", "input_init">>
    \o (IF b.USERPROG THEN <<"exception_init", "syscall_init">> ELSE << >>)
    \o <<"thread_start", "serial_init_queue", "timer_calibrate">>
    \o (IF b.FILESYS THEN <<"disk_init", "filesys_init">> ELSE << >>)
    \o (IF b.VM THEN <<"vm_init">> ELSE << >>)
    \o <<"printf", "run_actions", "finish">>

MainBody(b) ==
    <<"read_command_line", "parse_options",
      "thread_init", "console_init",
      "palloc_init", "malloc_init", "paging_init">>
    \o (IF b.USERPROG THEN <<"tss_init", "gdt_init">> ELSE << >>)
    \o <<"intr_init", "timer_init", "kbd_init", "input_init">>
    \o (IF b.USERPROG THEN <<"exception_init", "syscall_init">> ELSE << >>)
    \o <<"thread_start", "serial_init_queue", "timer_calibrate">>
    \o (IF b.FILESYS THEN <<"disk_init", "filesys_init">> ELSE << >>)
    \o (IF b.VM THEN <<"vm_init">> ELSE << >>)
    \o <<"printf", "run_actions", "finish">>

\* The function main is about to call, or is inside.
Step == MainBody(build)[pc]

Live == halt.kind = "running"

\* Executing undefined behaviour: nothing is known of the machine afterwards.
Undefined(what) == [kind |-> "undefined: " \o what, name |-> << >>, count |-> 0]

(***************************************************************************)
(* power_off and print_stats.                                              *)
(***************************************************************************)
print_stats(b) ==
    <<Call("timer_print_stats", << >>, 0), Call("thread_print_stats", << >>, 0)>>
    \o (IF b.FILESYS THEN <<Call("disk_print_stats", << >>, 0)>> ELSE << >>)
    \o <<Call("console_print_stats", << >>, 0), Call("kbd_print_stats", << >>, 0)>>
    \o (IF b.USERPROG THEN <<Call("exception_print_stats", << >>, 0)>> ELSE << >>)

\* The calls power_off makes before it spins forever.
power_off(b) ==
    (IF b.FILESYS THEN <<Call("filesys_done", << >>, 0)>> ELSE << >>)
    \o print_stats(b)
    \o <<Call("printf:Powering off", << >>, 0), Call("outw", << >>, 0)>>

PoweredOff == [kind |-> "power_off", name |-> << >>, count |-> 0]

\* A usage that prints the help text and returns.
usage_NoPowerOff(b) == <<Call("printf:usage", << >>, 0)>>

\* usage prints the help text and calls power_off.
usage(b) == <<Call("printf:usage", << >>, 0)>> \o power_off(b)

(***************************************************************************)
(* read_command_line.                                                      *)
(***************************************************************************)
\* Lines 187-189: argc, p and end are set up.
RclEnter ==
    /\ Live /\ Step = "read_command_line" /\ at = "entry"
    /\ rcl' = [i |-> 0, p |-> 0]
    /\ at' = "loop"
    /\ UNCHANGED <<inputs, mem, pc, argv_arr, argv, cfg, calls, returned, halt,
                   mem_end, pt, pa, intr>>

\* Lines 190-196: one iteration of the loop that records the tokens.
RclLoop ==
    /\ Live /\ Step = "read_command_line" /\ at = "loop"
    /\ rcl.i < arg_cnt
    /\ IF rcl.p >= LOADER_ARGS_LEN
       THEN /\ halt' = Panic("command line arguments overflow", << >>, 0)
            /\ UNCHANGED <<argv_arr, rcl>>
       ELSE IF rcl.i >= ArgvSlots
       THEN \* argv[i] = p stores outside the static array
            /\ halt' = Undefined("store outside argv[]")
            /\ UNCHANGED <<argv_arr, rcl>>
       ELSE /\ argv_arr' = [argv_arr EXCEPT ![rcl.i] = rcl.p]
            /\ rcl' = [i |-> rcl.i + 1,
                       p |-> rcl.p + strnlen(mem, rcl.p, LOADER_ARGS_LEN - rcl.p) + 1]
            /\ halt' = halt
    /\ UNCHANGED <<inputs, mem, pc, at, argv, cfg, calls, returned, mem_end, pt,
                   pa, intr>>

\* printf's view of a token: quoted when it holds a space.
Echo(str) ==
    IF IndexFrom(str, 32, 1) = 0 THEN str ELSE <<39>> \o str \o <<39>>

\* Lines 197-208: the sentinel, the echo of the command line, the return.
RclExit ==
    /\ Live /\ Step = "read_command_line" /\ at = "loop"
    /\ rcl.i >= arg_cnt
    /\ IF arg_cnt >= ArgvSlots
       THEN \* argv[argc] = NULL stores outside the static array
            /\ halt' = Undefined("store outside argv[]")
            /\ UNCHANGED <<argv_arr, calls, returned, pc, at, argv>>
       ELSE IF \E i \in 0..(arg_cnt - 1) : ~Terminated(mem, argv_arr[i])
       THEN \* strchr and printf read the bytes behind the argument area
            /\ argv_arr' = [argv_arr EXCEPT ![arg_cnt] = NULL]
            /\ halt' = Undefined("read outside the argument area")
            /\ UNCHANGED <<calls, returned, pc, at, argv>>
       ELSE /\ argv_arr' = [argv_arr EXCEPT ![arg_cnt] = NULL]
            /\ calls' = Append(calls,
                   Call("printf:Kernel command line",
                        [i \in 1..arg_cnt |-> Echo(StrAt(mem, argv_arr[i - 1]))], 0))
            /\ returned' = Append(returned, Step)
            /\ argv' = 0
            /\ pc' = pc + 1
            /\ at' = "entry"
            /\ halt' = halt
    /\ UNCHANGED <<inputs, mem, rcl, cfg, mem_end, pt, pa, intr>>


(***************************************************************************)
(* parse_options.                                                          *)
(***************************************************************************)
\* strtok_r (s, "=", &save_ptr) on a string that does not start with '=':
\* the token starts at s; the first '=' is overwritten by NUL and save_ptr
\* is left behind it, or at the terminating NUL when there is no '='.
strtok_name(m, s) ==
    LET str == StrAt(m, s)
        eq  == IndexFrom(str, 61, 1)
    IN  IF eq = 0
        THEN [mem |-> m, name |-> str, save_ptr |-> s + Len(str)]
        ELSE [mem |-> [m EXCEPT ![s + eq] = NUL],
              name |-> SubSeq(str, 1, eq - 1),
              save_ptr |-> s + eq]

\* strtok_r (NULL, "", &save_ptr): the rest of the string, NULL if empty.
strtok_value(m, save_ptr) ==
    IF ByteAt(m, save_ptr) = NUL THEN NULL ELSE save_ptr

\* A loop that takes every remaining token for an option.
IsOption_AnyToken(m, arr, a) ==
    arr[a] # NULL

\* Does the for loop of line 214 take another iteration?
IsOption(m, arr, a) ==
    /\ arr[a] # NULL
    /\ ByteAt(m, arr[a]) = 45

\* The strcmp chain without its #ifdef guards.
OptionCase_AnyBuild(b, name) ==
    IF name = S_h THEN "-h"
    ELSE IF name = S_q THEN "-q"
    ELSE IF name = S_f THEN "-f"
    ELSE IF name = S_rs THEN "-rs"
    ELSE IF name = S_mlfqs THEN "-mlfqs"
    ELSE IF name = S_ul THEN "-ul"
    ELSE IF name = S_threads_tests THEN "-threads-tests"
    ELSE "unknown"

\* Lines 219-238: the branch of the strcmp chain that name takes in a build.
OptionCase(b, name) ==
    IF name = S_h THEN "-h"
    ELSE IF name = S_q THEN "-q"
    ELSE IF b.FILESYS /\ name = S_f THEN "-f"
    ELSE IF name = S_rs THEN "-rs"
    ELSE IF name = S_mlfqs THEN "-mlfqs"
    ELSE IF b.USERPROG /\ name = S_ul THEN "-ul"
    ELSE IF b.USERPROG /\ name = S_threads_tests THEN "-threads-tests"
    ELSE "unknown"

\* Lines 214-239: one iteration, for the option at *argv.
ParseOption ==
    /\ Live /\ Step = "parse_options"
    /\ IsOption(mem, argv_arr, argv)
    /\ LET tok   == strtok_name(mem, argv_arr[argv])
           name  == tok.name
           value == strtok_value(tok.mem, tok.save_ptr)
           branch == OptionCase(build, name)
           Flag(f) == /\ cfg' = [cfg EXCEPT ![f] = TRUE]
                      /\ argv' = argv + 1
                      /\ UNCHANGED <<calls, halt>>
       IN  /\ mem' = tok.mem
           /\ IF branch = "-h"
              THEN /\ calls' = calls \o usage(build)
                   /\ halt' = PoweredOff
                   /\ UNCHANGED <<cfg, argv>>
              ELSE IF branch = "-q"
              THEN Flag("power_off_when_done")
              ELSE IF branch = "-f"
              THEN Flag("format_filesys")
              ELSE IF branch = "-rs"
              THEN IF value = NULL
                   THEN \* atoi (NULL)
                        /\ halt' = Undefined("atoi (NULL)")
                        /\ UNCHANGED <<cfg, calls, argv>>
                   ELSE /\ cfg' = [cfg EXCEPT
                                     !.random_seed = atoi(StrAt(tok.mem, value))]
                        /\ calls' = Append(calls,
                               Call("random_init", << >>, atoi(StrAt(tok.mem, value))))
                        /\ argv' = argv + 1
                        /\ halt' = halt
              ELSE IF branch = "-mlfqs"
              THEN Flag("thread_mlfqs")
              ELSE IF branch = "-ul"
              THEN IF value = NULL
                   THEN \* atoi (NULL)
                        /\ halt' = Undefined("atoi (NULL)")
                        /\ UNCHANGED <<cfg, calls, argv>>
                   ELSE /\ cfg' = [cfg EXCEPT
                                     !.user_page_limit = atoi(StrAt(tok.mem, value))]
                        /\ argv' = argv + 1
                        /\ UNCHANGED <<calls, halt>>
              ELSE IF branch = "-threads-tests"
              THEN Flag("thread_tests")
              ELSE /\ halt' = Panic("unknown option", name, 0)
                   /\ UNCHANGED <<cfg, calls, argv>>
    /\ UNCHANGED <<inputs, pc, at, argv_arr, rcl, returned, mem_end, pt, pa, intr>>

\* Line 241: the loop is over; main's argv is the first non-option.
ParseOptionsReturn ==
    /\ Live /\ Step = "parse_options"
    /\ ~IsOption(mem, argv_arr, argv)
    /\ returned' = Append(returned, Step)
    /\ pc' = pc + 1
    /\ UNCHANGED <<inputs, mem, at, argv_arr, rcl, argv, cfg, calls, halt,
                   mem_end, pt, pa, intr>>

(***************************************************************************)
(* main's calls into the other subsystems (lines 81-117).                  *)
(***************************************************************************)
Subsystems ==
    {"thread_init", "console_init", "palloc_init", "malloc_init", "tss_init",
     "gdt_init", "intr_init", "timer_init", "kbd_init", "input_init",
     "exception_init", "syscall_init", "thread_start", "serial_init_queue",
     "timer_calibrate", "disk_init", "filesys_init", "vm_init", "printf"}

\* The calls of main with a filesys_init call that clears format_filesys
\* once the disk is formatted.
SubsystemInit_ConsumesFlag ==
    /\ Live /\ Step \in Subsystems
    /\ calls' = Append(calls,
           Call(Step, << >>,
                IF Step = "filesys_init" /\ cfg.format_filesys THEN 1 ELSE 0))
    /\ cfg' = IF Step = "filesys_init"
              THEN [cfg EXCEPT !.format_filesys = FALSE] ELSE cfg
    /\ mem_end' = IF Step = "palloc_init" THEN ram.end ELSE mem_end
    /\ pt' = IF Step = "palloc_init" THEN [pt EXCEPT !.free = ram.pool] ELSE pt
    /\ intr' = IF Step = "thread_start" THEN TRUE ELSE intr
    /\ returned' = Append(returned, Step)
    /\ pc' = pc + 1
    /\ UNCHANGED <<inputs, mem, at, argv_arr, rcl, argv, halt, pa>>

\* palloc_init returns the end of memory and sets up the page pool;
\* thread_start enables interrupts; filesys_init is passed format_filesys.
SubsystemInit ==
    /\ Live /\ Step \in Subsystems
    /\ calls' = Append(calls,
           Call(Step, << >>,
                IF Step = "filesys_init" /\ cfg.format_filesys THEN 1 ELSE 0))
    /\ mem_end' = IF Step = "palloc_init" THEN ram.end ELSE mem_end
    /\ pt' = IF Step = "palloc_init" THEN [pt EXCEPT !.free = ram.pool] ELSE pt
    /\ intr' = IF Step = "thread_start" THEN TRUE ELSE intr
    /\ returned' = Append(returned, Step)
    /\ pc' = pc + 1
    /\ UNCHANGED <<inputs, mem, at, argv_arr, rcl, argv, cfg, halt, pa>>


(***************************************************************************)
(* paging_init.                                                            *)
(***************************************************************************)
ptov(paddr) == paddr + KERN_BASE

\* The index of va in the table of a level (0: leaf table ... 3: top).
PX(level, va) ==
    LET vpn == va \div PGSIZE
    IN  IF level = 0 THEN vpn % 512
        ELSE IF level = 1 THEN (vpn \div 512) % 512
        ELSE IF level = 2 THEN ((vpn \div 512) \div 512) % 512
        ELSE (((vpn \div 512) \div 512) \div 512) % 512

\* The intermediate tables on the way to va's leaf entry, top down.
WalkPath(va) ==
    {<<PX(3, va)>>, <<PX(3, va), PX(2, va)>>, <<PX(3, va), PX(2, va), PX(1, va)>>}

\* pml4e_walk (pml4, va, create): a reference to va's leaf entry (named by
\* va's page), allocating the missing intermediate tables when create is
\* set; NULL, with nothing allocated, when a table is missing and cannot be
\* had.
pml4e_walk(t, va, create) ==
    LET missing == WalkPath(va) \ t.tables
    IN  IF missing = {}
        THEN [pt |-> t, pte |-> va - (va % PGSIZE)]
        ELSE IF create = 1 /\ Cardinality(missing) <= t.free
        THEN [pt |-> [t EXCEPT !.tables = @ \cup missing,
                               !.free = @ - Cardinality(missing)],
              pte |-> va - (va % PGSIZE)]
        ELSE [pt |-> t, pte |-> NULL]

\* Line 158: palloc_get_page (PAL_ASSERT | PAL_ZERO) for the top-level table.
PagingEnter ==
    /\ Live /\ Step = "paging_init" /\ at = "entry"
    /\ IF pt.free = 0
       THEN /\ halt' = Panic("palloc_get: out of pages", << >>, 0)
            /\ UNCHANGED <<pt, pa, at>>
       ELSE /\ pt' = [pt EXCEPT !.allocated = TRUE, !.free = @ - 1]
            /\ pa' = 0
            /\ at' = "loop"
            /\ halt' = halt
    /\ UNCHANGED <<inputs, mem, pc, argv_arr, rcl, argv, cfg, calls, returned,
                   mem_end, intr>>

\* The permission bits of lines 168-171.
Perm(va) ==
    IF link.start <= va /\ va < link.end_kernel_text
    THEN PTE_P
    ELSE PTE_P + PTE_W

\* Lines 165-175: one iteration of the mapping loop.
PagingMap ==
    /\ Live /\ Step = "paging_init" /\ at = "loop"
    /\ pa < mem_end
    /\ LET va == ptov(pa)
           w  == pml4e_walk(pt, va, 1)
       IN  pt' = IF w.pte # NULL
                 THEN [w.pt EXCEPT !.entries = (w.pte :> (pa + Perm(va))) @@ @]
                 ELSE w.pt
    /\ pa' = pa + PGSIZE
    /\ UNCHANGED <<inputs, mem, pc, at, argv_arr, rcl, argv, cfg, calls, returned,
                   halt, mem_end, intr>>

\* Line 177: pml4_activate (0) reloads cr3 with the kernel table.
PagingActivate ==
    /\ Live /\ Step = "paging_init" /\ at = "loop"
    /\ pa >= mem_end
    /\ pt' = [pt EXCEPT !.cr3 = @ + 1]
    /\ calls' = Append(calls, Call("pml4_activate", << >>, 0))
    /\ returned' = Append(returned, Step)
    /\ pc' = pc + 1
    /\ at' = "entry"
    /\ UNCHANGED <<inputs, mem, argv_arr, rcl, argv, cfg, halt, mem_end, pa, intr>>

(***************************************************************************)
(* run_actions and run_task.                                               *)
(***************************************************************************)
\* The table with the file system actions in every build.
actions_AnyBuild(b) ==
    <<[name |-> S_run, argc |-> 2, function |-> "run_task"],
      [name |-> S_ls, argc |-> 1, function |-> "fsutil_ls"],
      [name |-> S_cat, argc |-> 2, function |-> "fsutil_cat"],
      [name |-> S_rm, argc |-> 2, function |-> "fsutil_rm"],
      [name |-> S_put, argc |-> 2, function |-> "fsutil_put"],
      [name |-> S_get, argc |-> 2, function |-> "fsutil_get"]>>

\* The table with cat declared to take no argument.
actions_CatAlone(b) ==
    <<[name |-> S_run, argc |-> 2, function |-> "run_task"]>>
    \o (IF b.FILESYS
        THEN <<[name |-> S_ls, argc |-> 1, function |-> "fsutil_ls"],
               [name |-> S_cat, argc |-> 1, function |-> "fsutil_cat"],
               [name |-> S_rm, argc |-> 2, function |-> "fsutil_rm"],
               [name |-> S_put, argc |-> 2, function |-> "fsutil_put"],
               [name |-> S_get, argc |-> 2, function |-> "fsutil_get"]>>
        ELSE << >>)

\* The table with ls declared to take an argument.
actions_LsTakesArg(b) ==
    <<[name |-> S_run, argc |-> 2, function |-> "run_task"]>>
    \o (IF b.FILESYS
        THEN <<[name |-> S_ls, argc |-> 2, function |-> "fsutil_ls"],
               [name |-> S_cat, argc |-> 2, function |-> "fsutil_cat"],
               [name |-> S_rm, argc |-> 2, function |-> "fsutil_rm"],
               [name |-> S_put, argc |-> 2, function |-> "fsutil_put"],
               [name |-> S_get, argc |-> 2, function |-> "fsutil_get"]>>
        ELSE << >>)

\* The table of supported actions (lines 272-278), without its sentinel.
actions(b) ==
    <<[name |-> S_run, argc |-> 2, function |-> "run_task"]>>
    \o (IF b.FILESYS
        THEN <<[name |-> S_ls, argc |-> 1, function |-> "fsutil_ls"],
               [name |-> S_cat, argc |-> 2, function |-> "fsutil_cat"],
               [name |-> S_rm, argc |-> 2, function |-> "fsutil_rm"],
               [name |-> S_put, argc |-> 2, function |-> "fsutil_put"],
               [name |-> S_get, argc |-> 2, function |-> "fsutil_get"]>>
        ELSE << >>)

\* The scan with its strcmp test inverted: the first entry not named str.
RECURSIVE FindAction_Inverted(_, _, _)
FindAction_Inverted(tab, str, k) ==
    IF k > Len(tab) THEN 0
    ELSE IF tab[k].name # str THEN k
    ELSE FindAction_Inverted(tab, str, k + 1)

\* Lines 285-289: the index of the first entry named str, 0 if there is none.
RECURSIVE FindAction(_, _, _)
FindAction(tab, str, k) ==
    IF k > Len(tab) THEN 0
    ELSE IF tab[k].name = str THEN k
    ELSE FindAction(tab, str, k + 1)

\* Lines 245-259: what run_task does with argv[1].
run_task(b, c, task) ==
    <<Call("printf:Executing", <<task>>, 0)>>
    \o (IF b.USERPROG /\ ~c.thread_tests
        THEN <<Call("process_create_initd", <<task>>, 0),
               Call("process_wait", << >>, 0)>>
        ELSE <<Call("run_test", <<task>>, 0)>>)
    \o <<Call("printf:Execution complete", <<task>>, 0)>>

\* The loop without the check for required arguments (lines 292-294).
RunAction_UncheckedArgs ==
    /\ Live /\ Step = "run_actions"
    /\ argv_arr[argv] # NULL
    /\ LET str == StrAt(mem, argv_arr[argv])
           k   == FindAction(actions(build), str, 1)
           Arg(p) == IF p = NULL THEN << >> ELSE StrAt(mem, p)
       IN  IF k = 0
           THEN /\ halt' = Panic("unknown action", str, 0)
                /\ UNCHANGED <<calls, argv>>
           ELSE LET a == actions(build)[k]
                IN  /\ calls' = Append(calls,
                           Call(a.function,
                                [i \in 1..a.argc |-> Arg(argv_arr[argv + i - 1])],
                                argv))
                        \o (IF a.function = "run_task"
                            THEN run_task(build, cfg, Arg(argv_arr[argv + 1]))
                            ELSE << >>)
                    /\ argv' = argv + a.argc
                    /\ halt' = halt
    /\ UNCHANGED <<inputs, mem, pc, at, argv_arr, rcl, cfg, returned, mem_end, pt,
                   pa, intr>>

\* Lines 280-299: one iteration of the loop, for the action at *argv.
RunAction ==
    /\ Live /\ Step = "run_actions"
    /\ argv_arr[argv] # NULL
    /\ LET str == StrAt(mem, argv_arr[argv])
           k   == FindAction(actions(build), str, 1)
       IN  IF k = 0
           THEN /\ halt' = Panic("unknown action", str, 0)
                /\ UNCHANGED <<calls, argv>>
           ELSE LET a == actions(build)[k]
                IN  IF \E i \in 1..(a.argc - 1) : argv_arr[argv + i] = NULL
                    THEN /\ halt' = Panic("action requires argument(s)", str,
                                          a.argc - 1)
                         /\ UNCHANGED <<calls, argv>>
                    ELSE /\ calls' = Append(calls,
                                Call(a.function,
                                     [i \in 1..a.argc |->
                                         StrAt(mem, argv_arr[argv + i - 1])],
                                     argv))
                             \o (IF a.function = "run_task"
                                 THEN run_task(build, cfg,
                                          StrAt(mem, argv_arr[argv + 1]))
                                 ELSE << >>)
                         /\ argv' = argv + a.argc
                         /\ halt' = halt
    /\ UNCHANGED <<inputs, mem, pc, at, argv_arr, rcl, cfg, returned, mem_end, pt,
                   pa, intr>>

\* Line 280: *argv is the null sentinel; run_actions returns.
RunActionsReturn ==
    /\ Live /\ Step = "run_actions"
    /\ argv_arr[argv] = NULL
    /\ returned' = Append(returned, Step)
    /\ pc' = pc + 1
    /\ UNCHANGED <<inputs, mem, at, argv_arr, rcl, argv, cfg, calls, halt,
                   mem_end, pt, pa, intr>>

\* main's last lines with a power_off that returns to its caller.
Finish_FallsThrough ==
    /\ Live /\ Step = "finish"
    /\ calls' = (IF cfg.power_off_when_done THEN calls \o power_off(build)
                                            ELSE calls)
                 \o <<Call("thread_exit", << >>, 0)>>
    /\ halt' = [kind |-> "thread_exit", name |-> << >>, count |-> 0]
    /\ UNCHANGED <<inputs, mem, pc, at, argv_arr, rcl, argv, cfg, returned,
                   mem_end, pt, pa, intr>>

\* Lines 123-125: power off if -q was given, else the boot thread exits.
Finish ==
    /\ Live /\ Step = "finish"
    /\ IF cfg.power_off_when_done
       THEN /\ calls' = calls \o power_off(build)
            /\ halt' = PoweredOff
       ELSE /\ calls' = Append(calls, Call("thread_exit", << >>, 0))
            /\ halt' = [kind |-> "thread_exit", name |-> << >>, count |-> 0]
    /\ UNCHANGED <<inputs, mem, pc, at, argv_arr, rcl, argv, cfg, returned,
                   mem_end, pt, pa, intr>>

Next ==
    \/ RclEnter \/ RclLoop \/ RclExit
    \/ ParseOption \/ ParseOptionsReturn
    \/ SubsystemInit
    \/ PagingEnter \/ PagingMap \/ PagingActivate
    \/ RunAction \/ RunActionsReturn
    \/ Finish

Spec == Init /\ [][Next]_vars


(***************************************************************************)
(* Reading the page table, as the hardware does.                           *)
(***************************************************************************)
\* The leaf entry for a page-aligned va; a leaf never written holds 0.
Leaf(va) == IF va \in DOMAIN pt.entries THEN pt.entries[va] ELSE 0

Present(pte)  == pte % 2 = 1
Writable(pte) == (pte \div 2) % 2 = 1
FrameOf(pte)  == pte - (pte % PGSIZE)

\* The page-aligned physical addresses below n.
PagesBelow(n) == {k * PGSIZE : k \in {j \in 0..MaxPages + 1 : j * PGSIZE < n}}

InKernelText(va) == link.start <= va /\ va < link.end_kernel_text

HasReturned(fn) == \E k \in 1..Len(returned) : returned[k] = fn

(***************************************************************************)
(* C1: after paging_init (mem_end) completes, every page-aligned physical  *)
(* address p in [0, mem_end) is mapped at ptov (p): the leaf entry is      *)
(* present, holds p, and is writable iff ptov (p) lies outside             *)
(* [start, _end_kernel_text); no other virtual address has a present leaf. *)
(***************************************************************************)
C1_KernelMapping ==
    HasReturned("paging_init") =>
        /\ \A p \in PagesBelow(mem_end) :
              /\ Present(Leaf(ptov(p)))
              /\ FrameOf(Leaf(ptov(p))) = p
              /\ Writable(Leaf(ptov(p))) <=> ~InKernelText(ptov(p))
        /\ \A va \in DOMAIN pt.entries :
              Present(Leaf(va)) => \E p \in PagesBelow(mem_end) : va = ptov(p)

\* paging_init has returned with every page of a non-empty range mapped.
C1_Witness ==
    /\ HasReturned("paging_init")
    /\ mem_end = MaxPages * PGSIZE
    /\ \A p \in PagesBelow(mem_end) : Present(Leaf(ptov(p)))
    /\ \E p \in PagesBelow(mem_end) : ~Writable(Leaf(ptov(p)))

(***************************************************************************)
(* C10: if pml4e_walk returns NULL for some page during paging_init, the   *)
(* system halts: no later page is visited, the table is not activated and  *)
(* no later boot step runs.                                                *)
(***************************************************************************)
\* pml4e_walk returned NULL for a page the loop has passed.
WalkFailed ==
    /\ pt.allocated
    /\ \E p \in PagesBelow(pa) : p < mem_end /\ ptov(p) \notin DOMAIN pt.entries

C10_WalkFailureHalts ==
    WalkFailed =>
        /\ ~Live
        /\ pt.cr3 = 0
        /\ ~HasReturned("paging_init")
        /\ \A p \in PagesBelow(pa) : ptov(p) \notin DOMAIN pt.entries => pa = p


(***************************************************************************)
(* C2: in every boot that reaches the action stage, main executes its      *)
(* steps in one fixed total order (read command line, parse options,       *)
(* thread_init, console_init, palloc_init, malloc_init, paging_init,       *)
(* [tss_init, gdt_init], intr_init, timer_init, kbd_init, input_init,      *)
(* [exception_init, syscall_init], thread_start, serial_init_queue,        *)
(* timer_calibrate, [disk_init, filesys_init], [vm_init], run_actions,     *)
(* shutdown); no step starts before its predecessor has completed, each    *)
(* runs at most once, paging_init runs only after palloc_init and          *)
(* timer_calibrate only after thread_start has enabled interrupts.         *)
(***************************************************************************)
C2_Order(b) ==
    <<"read_command_line", "parse_options", "thread_init", "console_init",
      "palloc_init", "malloc_init", "paging_init">>
    \o (IF b.USERPROG THEN <<"tss_init", "gdt_init">> ELSE << >>)
    \o <<"intr_init", "timer_init", "kbd_init", "input_init">>
    \o (IF b.USERPROG THEN <<"exception_init", "syscall_init">> ELSE << >>)
    \o <<"thread_start", "serial_init_queue", "timer_calibrate">>
    \o (IF b.FILESYS THEN <<"disk_init", "filesys_init">> ELSE << >>)
    \o (IF b.VM THEN <<"vm_init">> ELSE << >>)
    \o <<"run_actions">>

\* The steps of the claim that have completed, in the order they did.
C2_Done == SelectSeq(returned, LAMBDA fn : fn # "printf")

\* The handlers run_actions can invoke.
Handlers ==
    {"run_task", "fsutil_ls", "fsutil_cat", "fsutil_rm", "fsutil_put",
     "fsutil_get"}

Invoked == SelectSeq(calls, LAMBDA c : c.fn \in Handlers)

ShutDown == halt.kind \in {"power_off", "thread_exit"} /\ Step = "finish"

C2_BootOrder ==
    LET order == C2_Order(build)
        done  == C2_Done
    IN  /\ Len(done) <= Len(order)
        /\ \A k \in 1..Len(done) : done[k] = order[k]
        /\ Step \notin {"printf", "finish"} => Step = order[Len(done) + 1]
        /\ Step = "paging_init" => HasReturned("palloc_init")
        /\ pt.allocated => HasReturned("palloc_init")
        /\ Step = "timer_calibrate" => HasReturned("thread_start") /\ intr
        /\ HasReturned("timer_calibrate") => intr
        /\ Step = "run_actions" => done = SubSeq(order, 1, Len(order) - 1)
        /\ Invoked # << >> => done \in {SubSeq(order, 1, Len(order) - 1), order}
        /\ Step = "finish" => done = order
        /\ ShutDown => done = order

\* A boot of the full build that ran an action and shut down with -q.
C2_Witness ==
    /\ build = BuildAll
    /\ halt.kind = "power_off"
    /\ HasReturned("run_actions")
    /\ Invoked # << >>


(***************************************************************************)
(* What the claims say of a command line, computed from the tokens the     *)
(* loader wrote.                                                           *)
(***************************************************************************)
\* The loader's area is well formed: the declared count is the number of
\* tokens written and all of them, with their terminators, fit.
WellFormedBlob ==
    /\ arg_cnt = Len(loader_tokens)
    /\ Len(Flatten(loader_tokens)) <= LOADER_ARGS_LEN

\* The number of leading tokens that begin with '-'.
RECURSIVE LeadingOptions(_)
LeadingOptions(toks) ==
    IF toks # << >> /\ Head(toks) # << >> /\ Head(Head(toks)) = 45
    THEN 1 + LeadingOptions(Tail(toks))
    ELSE 0

\* The declared token count of an action name in a build; 0: not an action.
Arity(b, name) ==
    IF name = S_run THEN 2
    ELSE IF b.FILESYS /\ name = S_ls THEN 1
    ELSE IF b.FILESYS /\ name \in {S_cat, S_rm, S_put, S_get} THEN 2
    ELSE 0

HandlerOf(name) ==
    IF name = S_run THEN "run_task"
    ELSE IF name = S_ls THEN "fsutil_ls"
    ELSE IF name = S_cat THEN "fsutil_cat"
    ELSE IF name = S_rm THEN "fsutil_rm"
    ELSE IF name = S_put THEN "fsutil_put"
    ELSE "fsutil_get"

\* The invocations, from 1-based token position i on, up to the first token
\* that is no action or lacks arguments: handler, slice, 0-based cursor.
RECURSIVE Dispatch(_, _, _)
Dispatch(b, toks, i) ==
    IF i > Len(toks) THEN << >>
    ELSE LET n == Arity(b, toks[i])
         IN  IF n = 0 \/ i + n - 1 > Len(toks) THEN << >>
             ELSE <<Call(HandlerOf(toks[i]), SubSeq(toks, i, i + n - 1), i - 1)>>
                  \o Dispatch(b, toks, i + n)

\* The position (1-based) where dispatch stops: Len(toks) + 1 if every
\* token is consumed, else the position of the offending action token.
RECURSIVE DispatchEnd(_, _, _)
DispatchEnd(b, toks, i) ==
    IF i > Len(toks) THEN i
    ELSE LET n == Arity(b, toks[i])
         IN  IF n = 0 \/ i + n - 1 > Len(toks) THEN i
             ELSE DispatchEnd(b, toks, i + n)

FirstAction == LeadingOptions(loader_tokens) + 1

\* The tokens behind the options are registered actions with their arguments.
WellFormedActions ==
    DispatchEnd(build, loader_tokens, FirstAction) = Len(loader_tokens) + 1

InActionStage == Step \in {"run_actions", "finish"}

IsPrefix(q, r) == Len(q) <= Len(r) /\ \A k \in 1..Len(q) : q[k] = r[k]

(***************************************************************************)
(* C3: for a token list that is a concatenation of registered actions each *)
(* followed by its required arguments, run_actions invokes the handlers in *)
(* the order given, passes each the slice starting at its own action name, *)
(* advances the cursor by exactly the action's declared count, reaches the *)
(* null sentinel and returns normally.                                     *)
(***************************************************************************)
C3_DispatchInOrder ==
    (WellFormedBlob /\ WellFormedActions /\ InActionStage) =>
        LET expected == Dispatch(build, loader_tokens, FirstAction)
        IN  /\ IsPrefix(Invoked, expected)
            /\ halt.kind \in {"running", "power_off", "thread_exit"}
            /\ Step = "run_actions" =>
                  /\ Live
                  /\ argv <= Len(loader_tokens)
                  /\ Len(Invoked) < Len(expected) => argv = expected[Len(Invoked) + 1].val
                  /\ Len(Invoked) = Len(expected) => argv = Len(loader_tokens)
            /\ Step = "finish" =>
                  /\ HasReturned("run_actions")
                  /\ Invoked = expected
                  /\ argv = Len(loader_tokens)
                  /\ argv_arr[argv] = NULL

\* ["run", "prog", "ls"] on a FILESYS build: run_task with prog at cursor 0,
\* then fsutil_ls at cursor 2, and run_actions has returned.
C3_Witness ==
    /\ loader_tokens = <<S_run, T_prog, S_ls>>
    /\ build.FILESYS
    /\ HasReturned("run_actions")
    /\ Invoked = <<Call("run_task", <<S_run, T_prog>>, 0),
                   Call("fsutil_ls", <<S_ls>>, 2)>>


(***************************************************************************)
(* What the claims say of the options.                                     *)
(***************************************************************************)
\* An option token split at its first '='.
NameOf(tok) ==
    LET eq == IndexFrom(tok, 61, 1)
    IN  IF eq = 0 THEN tok ELSE SubSeq(tok, 1, eq - 1)

ValueOf(tok) ==
    LET eq == IndexFrom(tok, 61, 1)
    IN  IF eq = 0 THEN << >> ELSE SubSeq(tok, eq + 1, Len(tok))

\* The number a decimal numeral denotes; 0 for a value that is not numeric.
RECURSIVE Numeral(_, _)
Numeral(str, k) ==
    IF k = 0 THEN 0
    ELSE IF \A j \in 1..k : str[j] \in 48..57
    THEN 10 * Numeral(str, k - 1) + (str[k] - 48)
    ELSE Numeral(str, k - 1)

Number(str) == Numeral(str, Len(str))

\* The option names of a build.
OptionNames(b) ==
    {S_h, S_q, S_rs, S_mlfqs}
        \cup (IF b.FILESYS THEN {S_f} ELSE {})
        \cup (IF b.USERPROG THEN {S_ul, S_threads_tests} ELSE {})

EmptyCfg ==
    [power_off_when_done |-> FALSE, format_filesys |-> FALSE,
     thread_mlfqs |-> FALSE, user_page_limit |-> SIZE_MAX,
     thread_tests |-> FALSE, random_seed |-> NULL]

\* The configuration after one more option.
Configure(c, tok) ==
    LET name == NameOf(tok)
    IN  IF name = S_q THEN [c EXCEPT !.power_off_when_done = TRUE]
        ELSE IF name = S_f THEN [c EXCEPT !.format_filesys = TRUE]
        ELSE IF name = S_rs THEN [c EXCEPT !.random_seed = Number(ValueOf(tok))]
        ELSE IF name = S_mlfqs THEN [c EXCEPT !.thread_mlfqs = TRUE]
        ELSE IF name = S_ul THEN [c EXCEPT !.user_page_limit = Number(ValueOf(tok))]
        ELSE IF name = S_threads_tests THEN [c EXCEPT !.thread_tests = TRUE]
        ELSE c

\* The configuration after the first n tokens, taken as options.
RECURSIVE Configured(_, _)
Configured(toks, n) ==
    IF n = 0 THEN EmptyCfg ELSE Configure(Configured(toks, n - 1), toks[n])

(***************************************************************************)
(* C4: parse_options processes exactly the maximal leading run of tokens   *)
(* that begin with '-', splits each at its first '=' into name and value   *)
(* and applies it to the boot configuration, and returns the position of   *)
(* the first token that does not begin with '-' (or the sentinel); tokens  *)
(* at or after that position are never interpreted as options.            *)
(***************************************************************************)
C4_LeadingOptions ==
    WellFormedBlob =>
        LET n == LeadingOptions(loader_tokens)
        IN  /\ (Step = "parse_options" /\ HasReturned("read_command_line")) =>
                  /\ argv <= n
                  /\ Live => cfg = Configured(loader_tokens, argv)
                  /\ ~Live => argv < n
            /\ HasReturned("parse_options") =>
                  /\ cfg = Configured(loader_tokens, n)
                  /\ ~InActionStage => argv = n
                  /\ argv >= n
                  /\ n < Len(loader_tokens) =>
                        StrAt(mem, argv_arr[n]) = loader_tokens[n + 1]
                  /\ argv_arr[Len(loader_tokens)] = NULL

\* ["-rs=77", "-mlfqs", "run", "t"]: seed 77, mlfqs, the slice starts at run.
C4_Witness ==
    /\ loader_tokens = <<T_rs77, S_mlfqs, S_run, T_t>>
    /\ Step = "thread_init"
    /\ cfg.random_seed = 77
    /\ cfg.thread_mlfqs
    /\ ~cfg.power_off_when_done
    /\ argv = 2
    /\ StrAt(mem, argv_arr[argv]) = S_run


(***************************************************************************)
(* C5: for every well-formed loader blob (a declared count n and n         *)
(* null-terminated tokens packed contiguously within the area),            *)
(* read_command_line returns an argument vector whose entries 0..n-1 are   *)
(* the n tokens written, in order, followed by a null sentinel at index n. *)
(***************************************************************************)
\* read_command_line has just returned to main.
CommandLineRead == Step = "parse_options" /\ Live /\ argv = 0

C5_Reconstructs ==
    WellFormedBlob =>
        /\ Step = "read_command_line" => Live
        /\ CommandLineRead =>
              /\ \A i \in 0..(arg_cnt - 1) :
                    /\ argv_arr[i] # NULL
                    /\ StrAt(mem, argv_arr[i]) = loader_tokens[i + 1]
              /\ argv_arr[arg_cnt] = NULL

\* Three tokens written, three read back, then the sentinel.
C5_Witness ==
    /\ CommandLineRead
    /\ loader_tokens = <<S_q, S_run, T_prog>>
    /\ arg_cnt = 3
    /\ StrAt(mem, argv_arr[0]) = S_q
    /\ StrAt(mem, argv_arr[1]) = S_run
    /\ StrAt(mem, argv_arr[2]) = T_prog
    /\ argv_arr[3] = NULL

(***************************************************************************)
(* C6: when the current token names a registered action but fewer tokens   *)
(* than its declared count remain before the sentinel, run_actions halts   *)
(* fatally without invoking that action's handler, and the error names the *)
(* action and its required count.                                          *)
(***************************************************************************)
\* The 1-based position where dispatch of the written tokens stops.
StopsAt == DispatchEnd(build, loader_tokens, FirstAction)

\* Dispatch stops at a registered action that lacks arguments.
LacksArguments ==
    /\ StopsAt <= Len(loader_tokens)
    /\ Arity(build, loader_tokens[StopsAt]) > 0

\* Dispatch stops at a token that is no action of the build.
NotAnAction ==
    /\ StopsAt <= Len(loader_tokens)
    /\ Arity(build, loader_tokens[StopsAt]) = 0

\* As first stated: the count in the error is the action's declared count
\* (2 for cat).
C6_NamesDeclaredCount ==
    halt.kind = "action requires argument(s)" =>
        /\ halt.name = loader_tokens[argv + 1]
        /\ halt.count = Arity(build, halt.name)

\* Amended: the count in the error is the number of arguments the action
\* requires, its declared count less one for the action name (1 for cat).
C6_InsufficientArguments ==
    (WellFormedBlob /\ InActionStage) =>
        /\ LacksArguments =>
              /\ IsPrefix(Invoked, Dispatch(build, loader_tokens, FirstAction))
              /\ Step # "finish"
              /\ argv <= StopsAt - 1
              /\ ~Live => halt.kind = "action requires argument(s)"
        /\ halt.kind = "action requires argument(s)" =>
              /\ LacksArguments
              /\ argv = StopsAt - 1
              /\ halt.name = loader_tokens[StopsAt]
              /\ halt.count = Arity(build, loader_tokens[StopsAt]) - 1
              /\ Invoked = Dispatch(build, loader_tokens, FirstAction)

\* ["cat"] on a FILESYS build: the error names cat and one argument.
C6_Witness ==
    /\ build.FILESYS
    /\ loader_tokens = <<S_cat>>
    /\ halt = Panic("action requires argument(s)", S_cat, 1)
    /\ Invoked = << >>

(***************************************************************************)
(* C7: an action token is accepted iff it is in the registry of the build  *)
(* (run always; ls, cat, rm, put, get only with FILESYS); for any other    *)
(* token at the cursor run_actions halts fatally naming that token, and    *)
(* neither a handler for it nor any later action is invoked.               *)
(***************************************************************************)
C7_UnknownAction ==
    (WellFormedBlob /\ InActionStage) =>
        /\ IsPrefix(Invoked, Dispatch(build, loader_tokens, FirstAction))
        /\ \A k \in 1..Len(Invoked) :
              /\ Arity(build, Invoked[k].args[1]) > 0
              /\ Invoked[k].fn = HandlerOf(Invoked[k].args[1])
        /\ NotAnAction =>
              /\ Step # "finish"
              /\ argv <= StopsAt - 1
              /\ ~Live => halt = Panic("unknown action", loader_tokens[StopsAt], 0)
        /\ halt.kind = "unknown action" =>
              /\ NotAnAction
              /\ argv = StopsAt - 1
              /\ halt.name = loader_tokens[StopsAt]
              /\ Invoked = Dispatch(build, loader_tokens, FirstAction)

\* ["run", "prog", "ls"] without FILESYS: run is invoked, ls is unknown.
C7_Witness ==
    /\ ~build.FILESYS
    /\ loader_tokens = <<S_run, T_prog, S_ls>>
    /\ halt = Panic("unknown action", S_ls, 0)
    /\ Len(Invoked) = 1

C9_OverflowHalts ==
    ~WellFormedBlob =>
        /\ ~HasReturned("read_command_line")
        /\ halt.kind \in {"running", "command line arguments overflow"}
        /\ \A i \in DOMAIN argv_arr :
              argv_arr[i] # NULL => argv_arr[i] < LOADER_ARGS_LEN

\* A declared count one beyond a token that ends with the area: the panic.
C9_Witness ==
    /\ ~WellFormedBlob
    /\ arg_cnt = 2
    /\ Terminated(mem, 0)
    /\ rcl.p = LOADER_ARGS_LEN
    /\ halt = Panic("command line arguments overflow", << >>, 0)


(***************************************************************************)
(* The end of main.                                                        *)
(***************************************************************************)
\* -q is among the leading options the loader wrote.
QGiven ==
    \E k \in 1..LeadingOptions(loader_tokens) : NameOf(loader_tokens[k]) = S_q

\* How many calls of fn have been made.
Count(fn) == Len(SelectSeq(calls, LAMBDA c : c.fn = fn))

LastCall == calls[Len(calls)].fn

(***************************************************************************)
(* C11: after run_actions returns normally, main takes exactly one of two  *)
(* terminal paths, chosen solely by the power-off flag: with -q among the  *)
(* leading options it calls power_off, which never returns, so thread_exit *)
(* is never reached; without -q it calls thread_exit and power_off is      *)
(* never called.                                                           *)
(***************************************************************************)
C11_TerminalPath ==
    /\ HasReturned("run_actions") =>
          /\ Step = "finish"
          /\ halt.kind \in {"running", "power_off", "thread_exit"}
    /\ (Step = "finish" /\ Live) =>
          /\ Count("thread_exit") = 0
          /\ Count("outw") = 0
    /\ halt.kind = "thread_exit" =>
          /\ HasReturned("run_actions")
          /\ ~cfg.power_off_when_done
          /\ WellFormedBlob => ~QGiven
          /\ Count("thread_exit") = 1
          /\ LastCall = "thread_exit"
          /\ Count("outw") = 0
          /\ Count("printf:Powering off") = 0
          /\ Count("filesys_done") = 0
    /\ (halt.kind = "power_off" /\ Step = "finish") =>
          /\ cfg.power_off_when_done
          /\ WellFormedBlob => QGiven
          /\ Count("outw") = 1
          /\ LastCall = "outw"
          /\ Count("thread_exit") = 0
    /\ (Step = "finish" /\ ~Live /\ WellFormedBlob) =>
          (QGiven <=> halt.kind = "power_off")

\* A boot without -q whose actions ran and whose boot thread then exited.
C11_Witness ==
    /\ loader_tokens = <<S_run, T_prog>>
    /\ HasReturned("run_actions")
    /\ halt.kind = "thread_exit"
    /\ LastCall = "thread_exit"
    /\ Invoked # << >>


(***************************************************************************)
(* C12: when -h is encountered among the leading options, parse_options    *)
(* prints the usage text and powers the machine off at once and never      *)
(* returns: no option token after -h is applied to the configuration, and  *)
(* no subsystem initializer and no action handler is invoked in that boot. *)
(***************************************************************************)
C12_HelpPowersOff ==
    WellFormedBlob =>
        LET n == LeadingOptions(loader_tokens)
        IN  /\ (Step = "parse_options" /\ HasReturned("read_command_line")) =>
                  /\ \A k \in 1..argv : NameOf(loader_tokens[k]) # S_h
                  /\ (~Live /\ argv < n /\ NameOf(loader_tokens[argv + 1]) = S_h) =>
                        /\ halt = PoweredOff
                        /\ cfg = Configured(loader_tokens, argv)
                        /\ returned = <<"read_command_line">>
                        /\ Invoked = << >>
                        /\ Count("printf:usage") = 1
                        /\ Count("outw") = 1
                        /\ LastCall = "outw"
                        /\ \A k \in 1..Len(calls) : calls[k].fn \notin Subsystems
            /\ HasReturned("parse_options") =>
                  /\ \A k \in 1..n : NameOf(loader_tokens[k]) # S_h
                  /\ Count("printf:usage") = 0
            /\ Count("printf:usage") > 0 =>
                  /\ Step = "parse_options"
                  /\ halt = PoweredOff

\* ["-h", "-q", "run", "t"]: powered off at -h, -q not applied, nothing run.
C12_Witness ==
    /\ loader_tokens = <<S_h, S_q, S_run, T_t>>
    /\ halt = PoweredOff
    /\ argv = 0
    /\ cfg = EmptyCfg
    /\ returned = <<"read_command_line">>
    /\ LastCall = "outw"


(***************************************************************************)
(* C13: action dispatch is all-or-nothing: if the action token list holds  *)
(* an unknown action name or an action followed by fewer tokens than it    *)
(* requires, then no action handler of that list has been invoked when the *)
(* machine halts with the fatal error.                                     *)
(***************************************************************************)
DispatchError == halt.kind \in {"unknown action", "action requires argument(s)"}

\* As first stated: nothing of the list has run when the error is raised.
C13_AllOrNothing ==
    (WellFormedBlob /\ DispatchError) => Invoked = << >>

\* Amended: the actions in front of the offending token have run, in order,
\* each on tokens in front of it; the offending action and those behind it
\* have not.
C13_EarlierActionsOnly ==
    (WellFormedBlob /\ DispatchError) =>
        /\ ~WellFormedActions
        /\ Step = "run_actions"
        /\ argv = StopsAt - 1
        /\ halt.name = loader_tokens[StopsAt]
        /\ Invoked = Dispatch(build, loader_tokens, FirstAction)
        /\ \A k \in 1..Len(Invoked) :
              /\ Invoked[k].val + Len(Invoked[k].args) <= StopsAt - 1
              /\ Invoked[k].args =
                    SubSeq(loader_tokens, Invoked[k].val + 1,
                           Invoked[k].val + Len(Invoked[k].args))
        /\ StopsAt = FirstAction => Invoked = << >>

\* ["run", "prog", "cat"] with FILESYS: run has run when cat is refused.
C13_Witness ==
    /\ build.FILESYS
    /\ loader_tokens = <<S_run, T_prog, S_cat>>
    /\ halt.kind = "action requires argument(s)"
    /\ halt.name = S_cat
    /\ Invoked = <<Call("run_task", <<S_run, T_prog>>, 0)>>


(***************************************************************************)
(* C14: paging_init allocates exactly one top-level table and activates    *)
(* the address space exactly once, only after the leaf entry of the last   *)
(* page of [0, mem_end) has been written; no leaf entry of the kernel      *)
(* table is written after the activation.                                  *)
(***************************************************************************)
\* The leaf entry of the last page of [0, mem_end) has been written.
LastLeafWritten ==
    \A p \in PagesBelow(mem_end) :
        p + PGSIZE >= mem_end => ptov(p) \in DOMAIN pt.entries

C14_ActivateOnce ==
    [][/\ pt.cr3 <= 1
       /\ Count("pml4_activate") = pt.cr3
       /\ HasReturned("paging_init") => (pt.allocated /\ pt.cr3 = 1)
       /\ pt'.cr3 # pt.cr3 =>
             /\ pt.cr3 = 0
             /\ pt.allocated
             /\ pa >= mem_end
             /\ LastLeafWritten
       /\ pt'.allocated # pt.allocated => ~pt.allocated
       /\ pt.cr3 >= 1 => pt'.entries = pt.entries]_vars

\* The table is active with the leaf of every page, the last included.
C14_Witness ==
    /\ pt.cr3 = 1
    /\ mem_end = MaxPages * PGSIZE
    /\ LastLeafWritten
    /\ Cardinality(DOMAIN pt.entries) = MaxPages
    /\ Step = "finish"


(***************************************************************************)
(* C15: the boot configuration (power-off flag, format-filesystem flag,    *)
(* scheduler-variant flag, user page limit, test-harness flag) is written  *)
(* only by parse_options: every later step of the sequencer (subsystem     *)
(* initialization, paging_init, run_actions, run_task, power_off) leaves   *)
(* the flags unchanged, so the values read at filesys_init, run_task and   *)
(* the final power-off decision are those set by the leading options.      *)
(***************************************************************************)
\* The configuration the leading options of the written tokens give.
OptionsCfg == Configured(loader_tokens, LeadingOptions(loader_tokens))

C15_ConfigurationFrame ==
    [][/\ cfg' # cfg => (Step = "parse_options" /\ ~HasReturned("parse_options"))
       /\ Step # "parse_options" => cfg' = cfg
       /\ (WellFormedBlob /\ HasReturned("parse_options")) =>
             /\ cfg = OptionsCfg
             /\ cfg' = OptionsCfg
             /\ \A k \in 1..Len(calls) :
                   calls[k].fn = "filesys_init" =>
                      (calls[k].val = 1 <=> OptionsCfg.format_filesys)
             /\ Count("run_test") > 0 =>
                   (~build.USERPROG \/ OptionsCfg.thread_tests)
             /\ Count("process_create_initd") > 0 =>
                   (build.USERPROG /\ ~OptionsCfg.thread_tests)
             /\ (Step = "finish" /\ ~Live) =>
                   (halt.kind = "power_off" <=> OptionsCfg.power_off_when_done)]_vars

\* ["-q", "-f"] with FILESYS: filesys_init was told to format, and the boot
\* powered off at the end, with both flags as parse_options left them.
C15_Witness ==
    /\ build.FILESYS
    /\ loader_tokens = <<S_q, S_f>>
    /\ Step = "finish"
    /\ halt.kind = "power_off"
    /\ cfg = [EmptyCfg EXCEPT !.power_off_when_done = TRUE,
                              !.format_filesys = TRUE]
    /\ \E k \in 1..Len(calls) : calls[k].fn = "filesys_init" /\ calls[k].val = 1


(***************************************************************************)
(* C16: for the integer options -rs=VALUE and -ul=VALUE, a VALUE that is   *)
(* not numeric is converted to zero and option parsing continues with the  *)
(* next token; a non-numeric value never causes a fatal error.             *)
(***************************************************************************)
\* Is tok an integer option of the build, given with a value?
IntegerOption(b, tok) ==
    /\ NameOf(tok) \in ({S_rs} \cup (IF b.USERPROG THEN {S_ul} ELSE {}))
    /\ ValueOf(tok) # << >>

\* A value with no decimal digit behind its leading white space and sign.
NonNumeric(v) ==
    LET body == {k \in 1..Len(v) : ~IsSpace(v[k])}
        i == IF body = {} THEN Len(v) + 1 ELSE Least(body)
        j == IF i <= Len(v) /\ v[i] \in {43, 45} THEN i + 1 ELSE i
    IN  v # << >> /\ (j > Len(v) \/ v[j] \notin 48..57)

\* The values random_init has been called with, in order.
Seeds ==
    LET rs == SelectSeq(calls, LAMBDA c : c.fn = "random_init")
    IN  [k \in 1..Len(rs) |-> rs[k].val]

\* The -rs options among the first n tokens, in order.
RsOptions(n) ==
    SelectSeq(SubSeq(loader_tokens, 1, n), LAMBDA tok : NameOf(tok) = S_rs)

InitializerOf(fn) ==
    IF fn = "filesys_done" THEN "filesys_init"
    ELSE IF fn = "timer_print_stats" THEN "timer_init"
    ELSE IF fn = "thread_print_stats" THEN "thread_init"
    ELSE IF fn = "disk_print_stats" THEN "disk_init"
    ELSE IF fn = "console_print_stats" THEN "console_init"
    ELSE IF fn = "kbd_print_stats" THEN "kbd_init"
    ELSE "exception_init"

ShutdownCalls ==
    {"filesys_done", "timer_print_stats", "thread_print_stats",
     "disk_print_stats", "console_print_stats", "kbd_print_stats",
     "exception_print_stats"}

C17_StatsAfterInit ==
    \A k \in 1..Len(calls) :
        calls[k].fn \in ShutdownCalls =>
            \E j \in 1..(k - 1) : calls[j].fn = InitializerOf(calls[k].fn)

\* The end of the actions with -q on a FILESYS build: filesys_done and the
\* statistics come after every initializer.
C17_Witness ==
    /\ build.FILESYS
    /\ Step = "finish"
    /\ halt.kind = "power_off"
    /\ Count("filesys_done") = 1
    /\ Count("disk_print_stats") = 1
    /\ \A k \in 1..Len(calls) :
          calls[k].fn \in ShutdownCalls =>
              \E j \in 1..(k - 1) : calls[j].fn = InitializerOf(calls[k].fn)

(***************************************************************************)
(* C18: in every reachable state of run_actions, for any token list, the   *)
(* dispatch cursor is at or before the null sentinel (it never advances    *)
(* past it), and every token in the slice an action handler is invoked on  *)
(* (the action name through its last required argument) is a non-null      *)
(* token that precedes the sentinel.                                       *)
(***************************************************************************)
\* The index of the null sentinel read_command_line stored.
Sentinel == arg_cnt

C18_CursorBeforeSentinel ==
    (InActionStage /\ HasReturned("read_command_line")) =>
        /\ argv_arr[Sentinel] = NULL
        /\ \A i \in 0..(Sentinel - 1) : argv_arr[i] # NULL
        /\ argv <= Sentinel
        /\ \A k \in 1..Len(Invoked) :
              /\ Invoked[k].val + Len(Invoked[k].args) <= Sentinel
              /\ Invoked[k].val + Len(Invoked[k].args) <= argv
              /\ \A i \in 1..Len(Invoked[k].args) :
                    /\ argv_arr[Invoked[k].val + i - 1] # NULL
                    /\ Invoked[k].args[i] =
                          StrAt(mem, argv_arr[Invoked[k].val + i - 1])

\* ["-q", "run", "prog", "ls"]: the cursor is on the sentinel, behind the
\* slices of run and ls.
C18_Witness ==
    /\ loader_tokens = <<S_q, S_run, T_prog, S_ls>>
    /\ build.FILESYS
    /\ Step = "run_actions"
    /\ argv = Sentinel
    /\ Len(Invoked) = 2
    /\ Invoked[2].val = 3


(***************************************************************************)
(* C19: for every declared token count and every blob content (including   *)
(* empty, one-byte tokens), read_command_line writes token references and  *)
(* the null sentinel only at argument-vector indices 0..LOADER_ARGS_LEN/2, *)
(* never outside the LOADER_ARGS_LEN/2 + 1 slots of the static argv array. *)
(***************************************************************************)
C19_ArgvInBounds ==
    /\ halt # Undefined("store outside argv[]")
    /\ HasReturned("read_command_line") => arg_cnt < ArgvSlots

\* 64 tokens: the references fill slots 0..63 and the sentinel the last one.
C19_Witness ==
    /\ HasReturned("read_command_line")
    /\ arg_cnt = ArgvSlots - 1
    /\ argv_arr[arg_cnt - 1] # NULL
    /\ argv_arr[arg_cnt] = NULL

(***************************************************************************)
(* C20: parse_options never passes an absent value to the numeric          *)
(* conversion: for an integer option given without a value (-rs or -ul     *)
(* with no '=', or with '=' followed by nothing), it does not dereference  *)
(* a null value string.                                                    *)
(***************************************************************************)
C20_ValuePresent ==
    /\ halt # Undefined("atoi (NULL)")
    /\ (WellFormedBlob /\ Step = "parse_options" /\ HasReturned("read_command_line")) =>
          \A k \in 1..argv :
              NameOf(loader_tokens[k]) \in {S_rs, S_ul} =>
                  ValueOf(loader_tokens[k]) # << >>

\* -rs=77 has been passed: atoi was given the value "77".
C20_Witness ==
    /\ loader_tokens = <<T_rs77, S_mlfqs, S_run, T_t>>
    /\ Step = "parse_options"
    /\ argv = 1
    /\ Seeds = <<77>>

=============================================================================
